---- MODULE Spec2Model ----
(***************************************************************************)
(* A model of src/events/models.py of pycontw2016: the Time, Location,     *)
(* KeynoteEvent, ProposedTalkEvent and Schedule records and the            *)
(* operations the file defines or configures on them.                      *)
(*                                                                         *)
(* The records share no state, so each has a specification of its own      *)
(* over the one set of variables; a specification leaves the variables of  *)
(* the other records at their initial values.                              *)
(*                                                                         *)
(* A Python str is a sequence of one-character strings; a record's return  *)
(* value is a record [op, ..., ret] in a result variable.                  *)
(***************************************************************************)
EXTENDS Integers, Sequences, FiniteSets

VARIABLES
    schedules,   \* the Schedule table: rows in insertion order
    clock,       \* what timezone.now() reads
    schedRes,    \* the return value of the last Schedule operation
    times,       \* the Time table: rows in insertion order
    timeRes,     \* the return value of the last Time operation
    operands,    \* three Python objects, the operands of the comparisons
    cmp,         \* cmp[op][x][y]: what method op of operand x returned for operand y
    done,        \* the comparison methods applied so far
    value,       \* the argument of Location.get_md_width
    widthRes,    \* what Location.get_md_width returned or raised
    events,      \* the location codes of a list of events
    sortRes,     \* the list sorted by location code
    pageUrl,     \* what reverse('page', path='events/keynotes') returns
    slug,        \* a KeynoteEvent's slug
    urlRes,      \* what KeynoteEvent.get_absolute_url returned
    accepted,    \* TalkProposal.accepted of each proposal
    talkEvents,  \* the ProposedTalkEvent table: rows in insertion order
    talkRes,     \* the return value of the last ProposedTalkEvent operation
    fetched,     \* the instances the last query returned
    queries      \* the database queries issued since the last query began

schedVars == <<schedules, clock, schedRes>>
timeVars == <<times, timeRes>>
cmpVars == <<operands, cmp, done>>
widthVars == <<value, widthRes>>
sortVars == <<events, sortRes>>
urlVars == <<pageUrl, slug, urlRes>>
talkVars == <<accepted, talkEvents, talkRes, fetched, queries>>
vars == <<schedVars, timeVars, cmpVars, widthVars, sortVars, urlVars, talkVars>>

notSched == <<timeVars, cmpVars, widthVars, sortVars, urlVars, talkVars>>
notTime == <<schedVars, cmpVars, widthVars, sortVars, urlVars, talkVars>>
notCmp == <<schedVars, timeVars, widthVars, sortVars, urlVars, talkVars>>
notWidth == <<schedVars, timeVars, cmpVars, sortVars, urlVars, talkVars>>
notSort == <<schedVars, timeVars, cmpVars, widthVars, urlVars, talkVars>>
notUrl == <<schedVars, timeVars, cmpVars, widthVars, sortVars, talkVars>>
notTalk == <<schedVars, timeVars, cmpVars, widthVars, sortVars, urlVars>>

NoResult == [op |-> "none"]

\* ------------------------------------------------------------------ bounds

MaxRows == 3
MaxClock == 1
MaxStamp == 3

\* ------------------------------------------------------------- sequences

Range(s) == {s[i] : i \in 1..Len(s)}

SeqsUpTo(S, n) == UNION {[1..k -> S] : k \in 0..n}

\* The rearrangements of s.
SeqPermutations(s) ==
    {[i \in 1..Len(s) |-> s[f[i]]] :
        f \in {g \in [1..Len(s) -> 1..Len(s)] :
                  \A i, j \in 1..Len(s) : i # j => g[i] # g[j]}}

\* ================================================================ Schedule

Htmls == {"<a>", "<b>"}
Clock == 0..MaxClock
\* What a caller may pass as created_at to the constructor: nothing, or a value.
Supplied == [given : {FALSE}, v : {0}] \cup [given : {TRUE}, v : Clock]

\* The field with a default of now in place of auto_now_add: a value the
\* caller supplies is kept.
created_at_pre_save_caller(supplied, add, now) ==
    IF supplied.given THEN supplied.v ELSE now

\* DateTimeField(auto_now_add=True).pre_save(instance, add): on an insert the
\* value is timezone.now(), whatever the instance held.
created_at_pre_save(supplied, add, now) ==
    IF add THEN now ELSE supplied.v

\* ordering = ['created_at'], the minus sign lost.
Schedule_ordering_ascending(r, q) == r.created_at <= q.created_at

\* Meta.ordering = ['-created_at']: row r may precede row q.
Schedule_ordering(r, q) == r.created_at >= q.created_at

\* Meta.get_latest_by = 'created_at': the field latest() orders by.
Schedule_get_latest_by(r) == r.created_at

\* The orders the database may return the rows in under Meta.ordering (rows
\* with equal keys come in any order).
OrderedBy(rows) ==
    {p \in SeqPermutations(rows) :
        \A i, j \in 1..Len(p) : i < j => Schedule_ordering(p[i], p[j])}

\* Schedule(html=html, created_at=supplied).save(): a single insert.
ScheduleCreate(html, supplied) ==
    /\ Len(schedules) < MaxRows
    /\ LET row == [id |-> Len(schedules) + 1,
                   html |-> html,
                   created_at |-> created_at_pre_save(supplied, TRUE, clock)]
       IN  /\ schedules' = Append(schedules, row)
           /\ schedRes' = [op |-> "create", supplied |-> supplied, row |-> row]
    /\ UNCHANGED <<clock, notSched>>

\* Schedule.objects.all(): the rows in the default order.
ScheduleAll ==
    /\ \E p \in OrderedBy(schedules) :
           schedRes' = [op |-> "all", rows |-> p]
    /\ UNCHANGED <<schedules, clock, notSched>>

\* Schedule.objects.latest(): the first row by get_latest_by descending, or
\* DoesNotExist on an empty table.
ScheduleLatest ==
    /\ IF schedules = <<>>
       THEN schedRes' = [op |-> "latest", ret |-> "DoesNotExist"]
       ELSE \E r \in Range(schedules) :
                /\ \A q \in Range(schedules) :
                       Schedule_get_latest_by(q) <= Schedule_get_latest_by(r)
                /\ schedRes' = [op |-> "latest", ret |-> "row", row |-> r]
    /\ UNCHANGED <<schedules, clock, notSched>>

\* The wall clock reads another value (it is not assumed monotonic).
ClockChange ==
    /\ \E t \in Clock \ {clock} : clock' = t
    /\ UNCHANGED <<schedules, schedRes, notSched>>

ScheduleIdle ==
    /\ schedules = <<>>
    /\ clock = 0
    /\ schedRes = NoResult

ScheduleNext ==
    \/ \E html \in Htmls, supplied \in Supplied : ScheduleCreate(html, supplied)
    \/ ScheduleAll
    \/ ScheduleLatest
    \/ ClockChange

\* C1: after any sequence of Schedule creations, a listing in the default
\* order holds exactly the existing rows sorted by created_at descending, and
\* latest() on a non-empty table returns an existing row whose created_at is
\* the maximum over all existing rows.
C1_DefaultOrderAndLatest ==
    /\ schedRes.op = "all" =>
           /\ Len(schedRes.rows) = Len(schedules)
           /\ Range(schedRes.rows) = Range(schedules)
           /\ \A i, j \in 1..Len(schedRes.rows) :
                  i < j => schedRes.rows[i].created_at >= schedRes.rows[j].created_at
    /\ (schedRes.op = "latest" /\ schedules # <<>>) =>
           /\ schedRes.ret = "row"
           /\ schedRes.row \in Range(schedules)
           /\ \A i \in 1..Len(schedules) :
                  schedules[i].created_at <= schedRes.row.created_at

\* A listing whose order differs from the insertion order: the row created
\* later comes first because its created_at is greater.
C1_Witness ==
    /\ schedRes.op = "all"
    /\ Len(schedRes.rows) = MaxRows
    /\ schedRes.rows[1].id # 1
    /\ schedRes.rows[1].id # MaxRows
    /\ schedRes.rows[1].created_at > schedRes.rows[2].created_at

Stamps == 0..MaxStamp

\* value as a plain DateTimeField behind a surrogate key: any row is accepted.
Time_value_unconstrained(rows, v) == TRUE

\* value = DateTimeField(primary_key=True): the table accepts a row only if
\* no row holds its value.
Time_value_primary_key(rows, v) == \A i \in 1..Len(rows) : rows[i].value # v

\* Time.objects.create(value=v): an insert, refused by the primary key.
TimeCreate(v) ==
    /\ Len(times) < MaxRows
    /\ IF Time_value_primary_key(times, v)
       THEN /\ times' = Append(times, [value |-> v])
            /\ timeRes' = [op |-> "create", arg |-> v, ret |-> "row"]
       ELSE /\ times' = times
            /\ timeRes' = [op |-> "create", arg |-> v, ret |-> "IntegrityError"]
    /\ UNCHANGED notTime

\* QuerySet.get(value=v) on the rows.
QuerySetGet(rows, v) ==
    LET hits == {i \in 1..Len(rows) : rows[i].value = v}
    IN  IF hits = {} THEN [ret |-> "DoesNotExist"]
        ELSE IF Cardinality(hits) > 1 THEN [ret |-> "MultipleObjectsReturned"]
        ELSE [ret |-> "row", row |-> rows[CHOOSE i \in hits : TRUE]]

\* TimeManager.get(value): super().get(value=value).
TimeManager_get(rows, v) == QuerySetGet(rows, v)

TimeGet(v) ==
    /\ timeRes' = [op |-> "get", arg |-> v, got |-> TimeManager_get(times, v)]
    /\ UNCHANGED <<times, notTime>>

TimeIdle ==
    /\ times = <<>>
    /\ timeRes = NoResult

TimeNext ==
    \/ \E v \in Stamps : TimeCreate(v)
    \/ \E v \in Stamps : TimeGet(v)

\* C4: for every timestamp v at most one Time record has value v;
\* Time.objects.get(v) returns that record when it exists and fails with
\* DoesNotExist when no record has value v, and it leaves the table unchanged.
C4_UniqueValueAndGet ==
    /\ [](/\ \A v \in Stamps :
                Cardinality({i \in 1..Len(times) : times[i].value = v}) <= 1
          /\ timeRes.op = "get" =>
                IF \E i \in 1..Len(times) : times[i].value = timeRes.arg
                THEN /\ timeRes.got.ret = "row"
                     /\ timeRes.got.row \in Range(times)
                     /\ timeRes.got.row.value = timeRes.arg
                ELSE timeRes.got.ret = "DoesNotExist")
    /\ [][timeRes'.op = "get" => times' = times]_vars

\* A lookup that failed with DoesNotExist on a table holding other records.
C4_Witness ==
    /\ timeRes.op = "get"
    /\ timeRes.got.ret = "DoesNotExist"
    /\ Len(times) = MaxRows


\* ========================================================= Time comparison

Slots == 1..3

\* A Python object: its class, the type of its value attribute and the value
\* (an instant, for a datetime). A Time may hold a datetime, None (unset), or
\* a date, which is not a datetime.datetime.
TimeObjects ==
    [cls : {"Time"}, vtype : {"datetime"}, v : Stamps]
        \cup [cls : {"Time"}, vtype : {"NoneType", "date"}, v : {0}]

NonTimeObjects == [cls : {"datetime"}, vtype : {"datetime"}, v : {0}]

Objects == TimeObjects \cup NonTimeObjects

Concrete(o) == o.cls = "Time" /\ o.vtype = "datetime"

PyBool(b) == IF b THEN "True" ELSE "False"

\* __lt__ written with <=.
Time_lt_or_equal(self, other) ==
    IF other.cls # "Time" THEN "NotImplemented"
    ELSE IF self.vtype # "datetime" \/ other.vtype # "datetime"
         THEN "NotImplemented"
         ELSE PyBool(self.v <= other.v)

\* __lt__ without the isinstance checks of the two values.
Time_lt_unchecked(self, other) ==
    IF other.cls # "Time" THEN "NotImplemented"
    ELSE PyBool(self.v < other.v)

\* Time.__lt__(self, other).
Time_lt(self, other) ==
    IF other.cls # "Time" THEN "NotImplemented"
    ELSE IF self.vtype # "datetime" \/ other.vtype # "datetime"
         THEN "NotImplemented"
         ELSE PyBool(self.v < other.v)

\* Model.__eq__(self, other) of a Time, whose primary key is value: False for
\* an object that is no model instance, identity when the key is None, else
\* equality of the keys. same: self is other.
Time_eq(self, other, same) ==
    IF other.cls # "Time" THEN "False"
    ELSE IF self.vtype = "NoneType" THEN PyBool(same)
    ELSE PyBool(self.vtype = other.vtype /\ self.v = other.v)

\* What functools.total_ordering derives from __lt__ (and __eq__).
Time_gt(self, other, same) ==
    LET op_result == Time_lt(self, other)
    IN  IF op_result = "NotImplemented" THEN op_result
        ELSE PyBool(op_result = "False" /\ Time_eq(self, other, same) = "False")

Time_le(self, other, same) ==
    LET op_result == Time_lt(self, other)
    IN  IF op_result = "NotImplemented" THEN op_result
        ELSE PyBool(op_result = "True" \/ Time_eq(self, other, same) = "True")

Time_ge(self, other, same) ==
    LET op_result == Time_lt(self, other)
    IN  IF op_result = "NotImplemented" THEN op_result
        ELSE PyBool(op_result = "False")

OrderingOps == {"lt", "le", "gt", "ge"}
Ops == OrderingOps \cup {"eq"}

Call(op, self, other, same) ==
    CASE op = "lt" -> Time_lt(self, other)
      [] op = "le" -> Time_le(self, other, same)
      [] op = "gt" -> Time_gt(self, other, same)
      [] op = "ge" -> Time_ge(self, other, same)
      [] op = "eq" -> Time_eq(self, other, same)

\* Apply method op of every operand that is a Time to every operand.
Compare(op) ==
    /\ op \notin done
    /\ done' = done \cup {op}
    /\ cmp' = [cmp EXCEPT ![op] =
                  [x \in Slots |-> [y \in Slots |->
                      IF operands[x].cls = "Time"
                      THEN Call(op, operands[x], operands[y], x = y)
                      ELSE "no such method"]]]
    /\ UNCHANGED <<operands, notCmp>>

CmpIdle ==
    /\ operands = [x \in Slots |-> [cls |-> "Time", vtype |-> "NoneType", v |-> 0]]
    /\ cmp = [op \in Ops |-> [x \in Slots |-> [y \in Slots |-> "unset"]]]
    /\ done = {}

CmpNext == \E op \in Ops : Compare(op)

\* The same comparison of the underlying timestamps.
OfStamps(op, a, b) ==
    CASE op = "lt" -> a < b
      [] op = "le" -> a <= b
      [] op = "gt" -> a > b
      [] op = "ge" -> a >= b
      [] op = "eq" -> a = b

\* C6: for Time records holding concrete date-time values, each of <, <=, >,
\* >=, == returns what the same comparison of the underlying timestamps gives,
\* and so <= is antisymmetric, transitive and total on them.
C6_OrderAgreesWithTimestamps ==
    /\ \A op \in done : \A x, y \in Slots :
           (Concrete(operands[x]) /\ Concrete(operands[y])) =>
               cmp[op][x][y] = PyBool(OfStamps(op, operands[x].v, operands[y].v))
    /\ {"le", "eq"} \subseteq done =>
           \A x, y, z \in Slots :
               (Concrete(operands[x]) /\ Concrete(operands[y]) /\ Concrete(operands[z])) =>
                   /\ (cmp["le"][x][y] = "True" /\ cmp["le"][y][x] = "True")
                          => cmp["eq"][x][y] = "True"
                   /\ (cmp["le"][x][y] = "True" /\ cmp["le"][y][z] = "True")
                          => cmp["le"][x][z] = "True"
                   /\ cmp["le"][x][y] = "True" \/ cmp["le"][y][x] = "True"

\* Every operator applied to three records with two equal timestamps and a
\* greater one.
C6_Witness ==
    /\ done = Ops
    /\ \A x \in Slots : Concrete(operands[x])
    /\ operands[1].v = operands[2].v
    /\ operands[2].v < operands[3].v
    /\ cmp["lt"][1][2] = "False"
    /\ cmp["le"][1][2] = "True"
    /\ cmp["gt"][3][1] = "True"

\* C7: an ordering comparison (<, <=, >, >=) of a Time with a Time when one
\* of the two values is not a date-time, in either operand position, or with
\* an object that is not a Time, returns NotImplemented and never True or
\* False.
C7_IncomparableIsNotImplemented ==
    \A op \in done \cap OrderingOps : \A x, y \in Slots :
        (/\ operands[x].cls = "Time"
         /\ \/ operands[y].cls # "Time"
            \/ ~Concrete(operands[x])
            \/ ~Concrete(operands[y])) =>
            cmp[op][x][y] = "NotImplemented"

\* A concrete Time compared with a Time holding None, in both positions, and
\* with an object that is not a Time.
C7_Witness ==
    /\ OrderingOps \subseteq done
    /\ Concrete(operands[1])
    /\ operands[2].cls = "Time" /\ operands[2].vtype = "NoneType"
    /\ operands[3].cls # "Time"
    /\ cmp["lt"][1][2] = "NotImplemented"
    /\ cmp["ge"][2][1] = "NotImplemented"
    /\ cmp["gt"][1][3] = "NotImplemented"

\* ================================================================ Location

MaxInputLen == 4
MaxEvents == 3

\* R3 numbered after the other codes.
Location_R3_renumbered == <<"7", "-", "r", "3">>

\* The codes of Location.
Location_R3 == <<"1", "-", "r", "3">>
Location_ALL == <<"2", "-", "a", "l", "l">>
Location_R012 == <<"3", "-", "r", "0", "1", "2">>
Location_R0 == <<"4", "-", "r", "0">>
Location_R1 == <<"5", "-", "r", "1">>
Location_R2 == <<"6", "-", "r", "2">>

LocationCodes ==
    {Location_R3, Location_ALL, Location_R012, Location_R0, Location_R1, Location_R2}

\* A Python value passed as an argument: a str or None.
PyStr(s) == [type |-> "str", s |-> s]
PyNone == [type |-> "NoneType", s |-> <<>>]

\* Looking key up in a dict literal, given as its (key, value) items.
DictGetItem(items, key) ==
    IF \E i \in 1..Len(items) : PyStr(items[i][1]) = key
    THEN [ret |-> "value",
          width |-> items[CHOOSE i \in 1..Len(items) : PyStr(items[i][1]) = key][2]]
    ELSE [ret |-> "KeyError", width |-> 0]

\* The table without its last entry, '1-r3'.
Location_get_md_width_no_r3(v) ==
    DictGetItem(<<
        <<<<"2", "-", "a", "l", "l">>, 4>>,
        <<<<"3", "-", "r", "0", "1", "2">>, 3>>,
        <<<<"4", "-", "r", "0">>, 1>>,
        <<<<"5", "-", "r", "1">>, 1>>,
        <<<<"6", "-", "r", "2">>, 1>>
    >>, v)

\* Location.get_md_width(value).
Location_get_md_width(v) ==
    DictGetItem(<<
        <<<<"2", "-", "a", "l", "l">>, 4>>,
        <<<<"3", "-", "r", "0", "1", "2">>, 3>>,
        <<<<"4", "-", "r", "0">>, 1>>,
        <<<<"5", "-", "r", "1">>, 1>>,
        <<<<"6", "-", "r", "2">>, 1>>,
        <<<<"1", "-", "r", "3">>, 1>>
    >>, v)

\* The arguments tried: the six codes, every string of up to MaxInputLen
\* characters of '1-r3', the attribute names and labels, and None.
WidthAlphabet == {"1", "-", "r", "3"}

WidthInputs ==
    {PyStr(s) : s \in LocationCodes \cup SeqsUpTo(WidthAlphabet, MaxInputLen)
                    \cup {<<"R", "3">>, <<"A", "L", "L">>, <<"r", "3">>,
                          <<"1", "-", "R", "3">>, <<"7", "-", "r", "3">>}}
        \cup {PyNone}

GetMdWidth ==
    /\ widthRes.op = "none"
    /\ widthRes' = [op |-> "get_md_width", got |-> Location_get_md_width(value)]
    /\ UNCHANGED <<value, notWidth>>

WidthIdle ==
    /\ value = PyNone
    /\ widthRes = NoResult

WidthNext == GetMdWidth

\* C5: for each of the six Location codes get_md_width returns a value in
\* {1, 3, 4} and does not raise; for every other argument it raises KeyError
\* and returns nothing.
C5_WidthOfCodesOnly ==
    widthRes.op = "get_md_width" =>
        IF value.type = "str" /\ value.s \in LocationCodes
        THEN widthRes.got.ret = "value" /\ widthRes.got.width \in {1, 3, 4}
        ELSE widthRes.got.ret = "KeyError"

\* The lookup of a string that differs from a code by one character failed.
C5_Witness ==
    /\ widthRes.op = "get_md_width"
    /\ value = PyStr(<<"1", "-", "r">>)
    /\ widthRes.got.ret = "KeyError"

\* ------------------------------------------------- ordering by location code

\* ord(c) of the characters the codes are written in.
Ord(c) ==
    CASE c = "-" -> 45
      [] c = "0" -> 48 [] c = "1" -> 49 [] c = "2" -> 50 [] c = "3" -> 51
      [] c = "4" -> 52 [] c = "5" -> 53 [] c = "6" -> 54 [] c = "7" -> 55
      [] c = "a" -> 97 [] c = "l" -> 108 [] c = "r" -> 114

\* s < t of two str: by the first differing character, or by length.
RECURSIVE StrLt(_, _)
StrLt(s, t) ==
    IF t = <<>> THEN FALSE
    ELSE IF s = <<>> THEN TRUE
    ELSE IF Head(s) = Head(t) THEN StrLt(Tail(s), Tail(t))
    ELSE Ord(Head(s)) < Ord(Head(t))

\* list.sort on the codes: a stable insertion of each element in turn.
RECURSIVE Insert(_, _)
Insert(sorted, x) ==
    IF sorted = <<>> THEN <<x>>
    ELSE IF StrLt(x, Head(sorted)) THEN <<x>> \o sorted
    ELSE <<Head(sorted)>> \o Insert(Tail(sorted), x)

RECURSIVE Sorted(_)
Sorted(list) ==
    IF list = <<>> THEN <<>>
    ELSE Insert(Sorted(SubSeq(list, 1, Len(list) - 1)), list[Len(list)])

\* The events of one time period ordered by their location code.
SortByLocation ==
    /\ sortRes.op = "none"
    /\ sortRes' = [op |-> "sorted", list |-> Sorted(events)]
    /\ UNCHANGED <<events, notSort>>

SortIdle ==
    /\ events = <<>>
    /\ sortRes = NoResult

SortNext == SortByLocation

\* The documented priority: R3 first, then the belt and partial belt, then
\* the blocks R0, R1, R2.
Priority == <<Location_R3, Location_ALL, Location_R012, Location_R0, Location_R1, Location_R2>>

Rank(code) == CHOOSE i \in 1..Len(Priority) : Priority[i] = code

Count(list, code) == Cardinality({i \in 1..Len(list) : list[i] = code})

\* C10: the six codes are pairwise distinct and compare, as strings, in the
\* documented priority order, and a list of events sorted by location code is
\* the same events in that order: R3, ALL, R012, R0, R1, R2.
C10_CodesSortInPriorityOrder ==
    /\ Cardinality(LocationCodes) = 6
    /\ \A i, j \in 1..Len(Priority) :
           i < j => StrLt(Priority[i], Priority[j]) /\ ~StrLt(Priority[j], Priority[i])
    /\ sortRes.op = "sorted" =>
           /\ Len(sortRes.list) = Len(events)
           /\ \A c \in LocationCodes : Count(sortRes.list, c) = Count(events, c)
           /\ \A i, j \in 1..Len(sortRes.list) :
                  i < j => Rank(sortRes.list[i]) <= Rank(sortRes.list[j])

\* Events given as R2, ALL, R3 came out as R3, ALL, R2.
C10_Witness ==
    /\ events = <<Location_R2, Location_ALL, Location_R3>>
    /\ sortRes.op = "sorted"
    /\ sortRes.list = <<Location_R3, Location_ALL, Location_R2>>

\* ============================================================ KeynoteEvent

MaxUrlLen == 4
MaxSlugLen == 2

\* The first index of a character of cs in s at or after start, or Len(s) + 1.
IndexOfAny(s, cs, start) ==
    IF \E i \in start..Len(s) : s[i] \in cs
    THEN CHOOSE i \in start..Len(s) :
             s[i] \in cs /\ \A j \in start..(i - 1) : s[j] \notin cs
    ELSE Len(s) + 1

From(s, i) == SubSeq(s, i, Len(s))
StartsWith(s, p) == Len(s) >= Len(p) /\ SubSeq(s, 1, Len(p)) = p
EndsWith(s, p) == Len(s) >= Len(p) /\ From(s, Len(s) - Len(p) + 1) = p

\* urllib.parse: the characters of a scheme, the digits of a port, and the
\* schemes of uses_netloc that can be written here.
Letters == {"a", "e", "h", "k", "n", "o", "p", "r", "s", "t", "y"}
Digits == {"0", "1", "2", "3", "4", "5", "6", "7", "8", "9"}
SchemeChars == Letters \cup Digits \cup {"+", "-", "."}
UsesNetloc == {<<"h", "t", "t", "p">>, <<"h", "t", "t", "p", "s">>}

\* urllib.parse.urlsplit(url): (scheme, netloc, path, query, fragment).
UrlSplit(url) ==
    LET colon == IndexOfAny(url, {":"}, 1)
        hasScheme ==
            /\ colon > 1
            /\ colon <= Len(url)
            /\ \A i \in 1..(colon - 1) : url[i] \in SchemeChars
            /\ \/ From(url, colon + 1) = <<>>
               \/ \E i \in (colon + 1)..Len(url) : url[i] \notin Digits
        scheme == IF hasScheme THEN SubSeq(url, 1, colon - 1) ELSE <<>>
        url1 == IF hasScheme THEN From(url, colon + 1) ELSE url
        hasNetloc == StartsWith(url1, <<"/", "/">>)
        delim == IndexOfAny(url1, {"/", "?", "#"}, 3)
        netloc == IF hasNetloc THEN SubSeq(url1, 3, delim - 1) ELSE <<>>
        url2 == IF hasNetloc THEN From(url1, delim) ELSE url1
        hash == IndexOfAny(url2, {"#"}, 1)
        fragment == From(url2, hash + 1)
        url3 == SubSeq(url2, 1, hash - 1)
        mark == IndexOfAny(url3, {"?"}, 1)
        query == From(url3, mark + 1)
        path == SubSeq(url3, 1, mark - 1)
    IN  [scheme |-> scheme, netloc |-> netloc, path |-> path,
         query |-> query, fragment |-> fragment]

\* urllib.parse.urlunsplit(components).
UrlUnsplit(c) ==
    LET url1 ==
            IF \/ c.netloc # <<>>
               \/ (c.scheme # <<>> /\ c.scheme \in UsesNetloc
                       /\ ~StartsWith(c.path, <<"/", "/">>))
            THEN <<"/", "/">> \o c.netloc
                     \o (IF c.path # <<>> /\ Head(c.path) # "/"
                         THEN <<"/">> \o c.path ELSE c.path)
            ELSE c.path
        url2 == IF c.scheme # <<>> THEN c.scheme \o <<":">> \o url1 ELSE url1
        url3 == IF c.query # <<>> THEN url2 \o <<"?">> \o c.query ELSE url2
    IN  IF c.fragment # <<>> THEN url3 \o <<"#">> \o c.fragment ELSE url3

\* 'keynote-speaker-{slug}'.format(slug=slug)
KeynoteFragment(s) ==
    <<"k", "e", "y", "n", "o", "t", "e", "-",
      "s", "p", "e", "a", "k", "e", "r", "-">> \o s

\* The fragment appended to the page URL as text.
KeynoteEvent_get_absolute_url_appended(url, s) ==
    url \o <<"#">> \o KeynoteFragment(s)

\* KeynoteEvent.get_absolute_url(), url being what reverse('page', ...) gave.
KeynoteEvent_get_absolute_url(url, s) ==
    LET split == UrlSplit(url)
        frag == KeynoteFragment(s)
    IN  UrlUnsplit([split EXCEPT !.fragment = frag])

\* What reverse may return for the page: an absolute path, which reverse never
\* lets start with '//', written with '/', an unreserved character and the
\* delimiters '?', '#' and ':'; and the same behind a scheme and a host.
UrlAlphabet == {"/", "e", "?", "#", ":"}

PagePaths ==
    {u \in SeqsUpTo(UrlAlphabet, MaxUrlLen) :
        /\ u # <<>>
        /\ u[1] = "/"
        /\ ~StartsWith(u, <<"/", "/">>)}

HttpHost == <<"h", "t", "t", "p", ":", "/", "/", "n">>

PageUrls == PagePaths \cup {HttpHost \o u : u \in PagePaths}

Slugs == SeqsUpTo({"a", "-"}, MaxSlugLen)

GetAbsoluteUrl ==
    /\ urlRes.op = "none"
    /\ urlRes' = [op |-> "get_absolute_url",
                  url |-> KeynoteEvent_get_absolute_url(pageUrl, slug)]
    /\ UNCHANGED <<pageUrl, slug, notUrl>>

UrlIdle ==
    /\ pageUrl = <<"/">>
    /\ slug = <<>>
    /\ urlRes = NoResult

UrlNext == GetAbsoluteUrl

\* C8: get_absolute_url returns the page URL with its fragment set to
\* keynote-speaker-{slug}: scheme, host, path and query are those of the page
\* URL, the fragment is keynote-speaker-{slug} whatever fragment the page URL
\* had, and the result ends in #keynote-speaker-{slug}.
C8_KeynoteUrlFragment ==
    urlRes.op = "get_absolute_url" =>
        LET page == UrlSplit(pageUrl)
            res == UrlSplit(urlRes.url)
        IN  /\ res.scheme = page.scheme
            /\ res.netloc = page.netloc
            /\ res.path = page.path
            /\ res.query = page.query
            /\ res.fragment = KeynoteFragment(slug)
            /\ EndsWith(urlRes.url, <<"#">> \o KeynoteFragment(slug))

\* A page URL with a host, a path and a fragment of its own, whose fragment
\* was replaced.
C8_Witness ==
    /\ urlRes.op = "get_absolute_url"
    /\ pageUrl = HttpHost \o <<"/", "e", "#", "e">>
    /\ slug = <<"a">>
    /\ urlRes.url = HttpHost \o <<"/", "e", "#">> \o KeynoteFragment(<<"a">>)

\* ======================================================== ProposedTalkEvent

MaxProposals == 2
MaxTalks == 3

Proposals == 1..MaxProposals

\* The field without limit_choices_to: every proposal is a choice.
ProposedTalkEvent_proposal_unlimited(flags) == DOMAIN flags

\* proposal = BigForeignKey(to=TalkProposal, limit_choices_to={'accepted': True}):
\* the proposals the field's validation accepts.
ProposedTalkEvent_proposal_choices(flags) == {p \in DOMAIN flags : flags[p] = TRUE}

\* Creating a ProposedTalkEvent for proposal p through the validation layer
\* (a model form, or full_clean before save): the field rejects a proposal
\* outside its choices, and nothing is saved.
TalkEventCreate(p) ==
    /\ Len(talkEvents) < MaxTalks
    /\ IF p \in ProposedTalkEvent_proposal_choices(accepted)
       THEN /\ talkEvents' = Append(talkEvents, [id |-> Len(talkEvents) + 1, proposal |-> p])
            /\ talkRes' = [op |-> "create", proposal |-> p, ret |-> "row"]
       ELSE /\ talkEvents' = talkEvents
            /\ talkRes' = [op |-> "create", proposal |-> p, ret |-> "ValidationError"]
    /\ UNCHANGED <<accepted, fetched, queries, notTalk>>

\* The manager's queryset without select_related.
ProposedTalkEventManager_get_queryset_plain == {}

\* ProposedTalkEventManager.get_queryset(): the relations the query joins.
ProposedTalkEventManager_get_queryset == {"proposal"}

\* ProposedTalkEvent.objects.all(), evaluated: one query; each instance holds
\* its proposal already if the query joined it.
TalkEventList ==
    /\ fetched' = [i \in 1..Len(talkEvents) |->
                      [proposal |-> talkEvents[i].proposal,
                       cached |-> "proposal" \in ProposedTalkEventManager_get_queryset,
                       read |-> FALSE]]
    /\ queries' = 1
    /\ talkRes' = [op |-> "all", proposal |-> 0, ret |-> "rows"]
    /\ UNCHANGED <<accepted, talkEvents, notTalk>>

\* str(event) of a fetched instance: self.proposal.title. Reading
\* self.proposal queries the database unless the instance holds it.
TalkEventStr(i) ==
    /\ i \in 1..Len(fetched)
    /\ queries' = IF fetched[i].cached THEN queries ELSE queries + 1
    /\ fetched' = [fetched EXCEPT ![i].cached = TRUE, ![i].read = TRUE]
    /\ talkRes' = [op |-> "str", proposal |-> fetched[i].proposal, ret |-> "title"]
    /\ UNCHANGED <<accepted, talkEvents, notTalk>>

TalkIdle ==
    /\ accepted = [p \in Proposals |-> TRUE]
    /\ talkEvents = <<>>
    /\ talkRes = NoResult
    /\ fetched = <<>>
    /\ queries = 0

TalkNext ==
    \/ \E p \in Proposals : TalkEventCreate(p)
    \/ TalkEventList
    \/ \E i \in 1..MaxTalks : TalkEventStr(i)

\* C3: creating a ProposedTalkEvent whose proposal has accepted = False is
\* rejected with a validation error and saves nothing, creating one whose
\* proposal is accepted succeeds, and so every event created this way has an
\* accepted proposal.
C3_OnlyAcceptedProposals ==
    /\ [](/\ talkRes.op = "create" =>
                talkRes.ret = (IF accepted[talkRes.proposal]
                               THEN "row" ELSE "ValidationError")
          /\ \A i \in 1..Len(talkEvents) : accepted[talkEvents[i].proposal])
    /\ [][(talkRes'.op = "create" /\ ~accepted[talkRes'.proposal])
              => talkEvents' = talkEvents]_vars

\* A creation rejected for an unaccepted proposal, after one that succeeded.
C3_Witness ==
    /\ talkRes.op = "create"
    /\ ~accepted[talkRes.proposal]
    /\ talkRes.ret = "ValidationError"
    /\ Len(talkEvents) >= 1

\* C9: whatever the number n of rows fetched through the default manager and
\* however many of their proposal titles have been read, one query has been
\* issued: none is added per row.
C9_NoQueryPerRow ==
    /\ queries <= 1
    /\ talkRes.op \in {"all", "str"} => queries = 1

\* MaxTalks rows fetched and the title of each read.
C9_Witness ==
    /\ Len(fetched) = MaxTalks
    /\ \A i \in 1..Len(fetched) : fetched[i].read
    /\ queries = 1

\* ========================================================== specifications

ScheduleInit ==
    /\ schedules = <<>>
    /\ clock \in Clock
    /\ schedRes = NoResult
    /\ TimeIdle /\ CmpIdle /\ WidthIdle /\ SortIdle /\ UrlIdle /\ TalkIdle

SpecSchedule == ScheduleInit /\ [][ScheduleNext]_vars

TimeInit ==
    /\ times = <<>>
    /\ timeRes = NoResult
    /\ ScheduleIdle /\ CmpIdle /\ WidthIdle /\ SortIdle /\ UrlIdle /\ TalkIdle

SpecTime == TimeInit /\ [][TimeNext]_vars

CmpInit ==
    /\ operands \in [Slots -> Objects]
    /\ cmp = [op \in Ops |-> [x \in Slots |-> [y \in Slots |-> "unset"]]]
    /\ done = {}
    /\ ScheduleIdle /\ TimeIdle /\ WidthIdle /\ SortIdle /\ UrlIdle /\ TalkIdle

SpecCompare == CmpInit /\ [][CmpNext]_vars

WidthInit ==
    /\ value \in WidthInputs
    /\ widthRes = NoResult
    /\ ScheduleIdle /\ TimeIdle /\ CmpIdle /\ SortIdle /\ UrlIdle /\ TalkIdle

SpecWidth == WidthInit /\ [][WidthNext]_vars

SortInit ==
    /\ events \in SeqsUpTo(LocationCodes, MaxEvents)
    /\ sortRes = NoResult
    /\ ScheduleIdle /\ TimeIdle /\ CmpIdle /\ WidthIdle /\ UrlIdle /\ TalkIdle

SpecSort == SortInit /\ [][SortNext]_vars

UrlInit ==
    /\ pageUrl \in PageUrls
    /\ slug \in Slugs
    /\ urlRes = NoResult
    /\ ScheduleIdle /\ TimeIdle /\ CmpIdle /\ WidthIdle /\ SortIdle /\ TalkIdle

SpecKeynote == UrlInit /\ [][UrlNext]_vars

TalkInit ==
    /\ accepted \in [Proposals -> BOOLEAN]
    /\ talkEvents = <<>>
    /\ talkRes = NoResult
    /\ fetched = <<>>
    /\ queries = 0
    /\ ScheduleIdle /\ TimeIdle /\ CmpIdle /\ WidthIdle /\ SortIdle /\ UrlIdle

SpecTalk == TalkInit /\ [][TalkNext]_vars

====
